---- MODULE Spec2Model ----
(***************************************************************************)
(* goarchtest: the TypeSet query engine (predicates, combinators and      *)
(* GetResult) modelled as a state machine over a heap of TypeSet objects. *)
(* A *TypeSet is a pointer: a predicate either mutates its receiver and   *)
(* returns it, or allocates a new TypeSet and returns that one.  Go       *)
(* strings are TLA+ strings; slices are sequences.                        *)
(***************************************************************************)
EXTENDS Integers, Sequences, FiniteSets, TLC

VARIABLES universe, heap, cur, result, trace, snapshot, pattern, results, goroutines,
          memory

vars == <<universe, heap, cur, result, trace, snapshot, pattern, results, goroutines, memory>>

(***************************************************************************)
(* Bounds of the model.                                                    *)
(***************************************************************************)
\* most records in a universe of the query-chain specification
MaxTypes == 2
\* most predicate/combinator calls in one run of the query-chain specification
MaxCalls == 3
\* longest module path, import path or argument of the matching specifications
MaxPathLen == 3
\* most predicate calls in one run of the matching specifications
MaxProbes == 2
\* most layers passed to LayeredArchitecture
MaxLayers == 3
\* most bounded contexts passed to DDDWithCleanArchitecture
MaxDomains == 2
\* most rules of a user-defined pattern
MaxRules == 2

(***************************************************************************)
(* The strings package, as used by the predicates.                         *)
(***************************************************************************)
HasPrefix(s, prefix) ==
    /\ Len(prefix) <= Len(s)
    /\ SubSeq(s, 1, Len(prefix)) = prefix

HasSuffix(s, suffix) ==
    /\ Len(suffix) <= Len(s)
    /\ SubSeq(s, Len(s) - Len(suffix) + 1, Len(s)) = suffix

Contains(s, substr) ==
    \E i \in 0..(Len(s) - Len(substr)) : SubSeq(s, i + 1, i + Len(substr)) = substr

(***************************************************************************)
(* Per-record tests of the filtering loops.  A loop                        *)
(* "for _, t := range ts.types { if cond { append } }" is SelectSeq.        *)
(***************************************************************************)
\* mutant of NamespaceMatch: plain substring test
NamespaceMatchContains(fullPath, namespace) == Contains(fullPath, namespace)

\* ResideInNamespace: exact, suffix "/"+ns, interior "/"+ns+"/", prefix ns+"/"
NamespaceMatch(fullPath, namespace) ==
    \/ fullPath = namespace
    \/ HasSuffix(fullPath, "/" \o namespace)
    \/ Contains(fullPath, "/" \o namespace \o "/")
    \/ HasPrefix(fullPath, namespace \o "/")

\* mutant of ImportMatch: plain substring test
ImportMatchContains(imp, dependency) == Contains(imp, dependency)

\* HaveDependencyOn: the test applied to one import
ImportMatch(imp, dependency) ==
    \/ imp = dependency
    \/ HasPrefix(imp, dependency \o "/")
    \/ HasSuffix(imp, "/" \o dependency)
    \/ Contains(imp, "/" \o dependency \o "/")

HasImport(t, dependency) ==
    \E k \in 1..Len(t.Imports) : ImportMatch(t.Imports[k], dependency)

\* DoNotHaveDependencyOn: hasDependency is a plain substring test
HasDependencySubstring(t, dependency) ==
    \E k \in 1..Len(t.Imports) : Contains(t.Imports[k], dependency)

(***************************************************************************)
(* TypeSet values.                                                         *)
(***************************************************************************)
TypeSet(types, originalTypes, currentPredicate, matchedPredicates) ==
    [types |-> types, originalTypes |-> originalTypes,
     currentPredicate |-> currentPredicate, matchedPredicates |-> matchedPredicates]

\* extractTypesFromPackages: types and originalTypes are the extracted list
extractTypesFromPackages(records) == TypeSet(records, records, "", <<>>)

\* the TypeSet a filter predicate returns: the filtered records, the baseline
\* carried over, and the predicate's name appended to the log
Filtered(ts, name, filteredTypes) ==
    TypeSet(filteredTypes, ts.originalTypes, name, Append(ts.matchedPredicates, name))

ResideInNamespaceSet(ts, namespace) ==
    Filtered(ts, "ResideInNamespace",
             SelectSeq(ts.types, LAMBDA t : NamespaceMatch(t.FullPath, namespace)))

HaveDependencyOnSet(ts, dependency) ==
    Filtered(ts, "HaveDependencyOn",
             SelectSeq(ts.types, LAMBDA t : HasImport(t, dependency)))

DoNotHaveDependencyOnSet(ts, dependency) ==
    Filtered(ts, "DoNotHaveDependencyOn",
             SelectSeq(ts.types, LAMBDA t : ~HasDependencySubstring(t, dependency)))

DoNotResideInNamespaceSet(ts, namespace) ==
    Filtered(ts, "DoNotResideInNamespace",
             SelectSeq(ts.types, LAMBDA t : ~Contains(t.Package, namespace)))

ImplementInterfaceSet(ts, interfaceName) ==
    Filtered(ts, "ImplementInterface",
             SelectSeq(ts.types,
                 LAMBDA t : \E k \in 1..Len(t.Interfaces) : t.Interfaces[k] = interfaceName))

BeStructSet(ts) ==
    Filtered(ts, "BeStruct", SelectSeq(ts.types, LAMBDA t : t.IsStruct))

HaveNameEndingWithSet(ts, suffix) ==
    Filtered(ts, "HaveNameEndingWith",
             SelectSeq(ts.types, LAMBDA t : HasSuffix(t.Name, suffix)))

\* mutant of HaveNameStartingWithSet: the loop stops at the first record kept
HaveNameStartingWithSetFirst(ts, prefix) ==
    LET kept == SelectSeq(ts.types, LAMBDA t : HasPrefix(t.Name, prefix))
    IN Filtered(ts, "HaveNameStartingWith", IF kept = <<>> THEN <<>> ELSE << kept[1] >>)

HaveNameStartingWithSet(ts, prefix) ==
    Filtered(ts, "HaveNameStartingWith",
             SelectSeq(ts.types, LAMBDA t : HasPrefix(t.Name, prefix)))

AreInterfacesSet(ts) ==
    Filtered(ts, "AreInterfaces", SelectSeq(ts.types, LAMBDA t : t.IsInterface))

\* mutant of ShouldSet: the checkpoint is not taken
ShouldSetNoCheckpoint(ts) == [ts EXCEPT !.currentPredicate = "Should"]

ShouldSet(ts) == [ts EXCEPT !.currentPredicate = "Should", !.originalTypes = ts.types]

\* mutant of ShouldNotSet: the negation sentinel is not pushed
ShouldNotSetNoSentinel(ts) ==
    TypeSet(ts.types, ts.originalTypes, "ShouldNot", ts.matchedPredicates)

ShouldNotSet(ts) ==
    TypeSet(ts.types, ts.originalTypes, "ShouldNot", Append(ts.matchedPredicates, "Negate"))

\* Or: the key of a record in unionMap
UnionKey(t) == t.Package \o "." \o t.Name

RECURSIVE OrLoop(_, _, _, _)
\* Or: the second loop, from position k of the slice other.types had when the
\* range statement was entered; appends the records whose key is not in unionMap
OrLoop(types, unionMap, otherTypes, k) ==
    IF k > Len(otherTypes) THEN types
    ELSE IF UnionKey(otherTypes[k]) \in unionMap
         THEN OrLoop(types, unionMap, otherTypes, k + 1)
         ELSE OrLoop(Append(types, otherTypes[k]),
                     unionMap \cup { UnionKey(otherTypes[k]) }, otherTypes, k + 1)

\* mutant of OrSet: unionMap is not filled from the receiver's records
OrSetEmptyMap(ts, other) ==
    TypeSet(OrLoop(ts.types, {}, other.types, 1), ts.originalTypes, "Or",
            Append(ts.matchedPredicates, "Or"))

OrSet(ts, other) ==
    TypeSet(OrLoop(ts.types, { UnionKey(ts.types[k]) : k \in 1..Len(ts.types) },
                   other.types, 1),
            ts.originalTypes, "Or", Append(ts.matchedPredicates, "Or"))

(***************************************************************************)
(* GetResult and getFailingTypes.                                          *)
(***************************************************************************)
getFailingTypes(ts) ==
    SelectSeq(ts.originalTypes,
         LAMBDA origType :
            ~\E k \in 1..Len(ts.types) :
                /\ origType.FullPath = ts.types[k].FullPath
                /\ origType.Name = ts.types[k].Name)

Result(isSuccessful, failingTypes) ==
    [IsSuccessful |-> isSuccessful, FailingTypes |-> failingTypes]

\* mutant of shouldNegate: only the last log entry is looked at
shouldNegateLast(ts) ==
    /\ Len(ts.matchedPredicates) > 0
    /\ ts.matchedPredicates[Len(ts.matchedPredicates)] = "Negate"

shouldNegate(ts) ==
    \E k \in 1..Len(ts.matchedPredicates) : ts.matchedPredicates[k] = "Negate"

GetResultOf(ts) ==
    IF Len(ts.matchedPredicates) = 0
    THEN Result(TRUE, <<>>)
    ELSE IF shouldNegate(ts)
         THEN Result(Len(ts.types) = 0, ts.types)
         ELSE Result(Len(ts.types) > 0, getFailingTypes(ts))

(***************************************************************************)
(* Inputs.  SampleTypes is what extraction yields for a small two-layer    *)
(* project (all types of a package share the package's imports); a         *)
(* universe of the query-chain specification is any selection of at most   *)
(* MaxTypes of them, in extraction order.                                  *)
(***************************************************************************)
TypeInfo(name, package, fullPath, imports, interfaces, isStruct, isInterface) ==
    [Name |-> name, Package |-> package, FullPath |-> fullPath, Imports |-> imports,
     Interfaces |-> interfaces, IsStruct |-> isStruct, IsInterface |-> isInterface]

SampleTypes ==
    << TypeInfo("User", "domain", "app/domain", <<"app/infrastructure">>, <<>>, TRUE, FALSE),
       TypeInfo("UserRepository", "domain", "app/domain", <<"app/infrastructure">>,
                <<"Save">>, FALSE, TRUE),
       TypeInfo("Repo", "infrastructure", "app/infrastructure", <<"app/domain">>,
                <<>>, TRUE, FALSE),
       TypeInfo("SqlRepository", "infrastructure", "app/infrastructure", <<"app/domain">>,
                <<>>, TRUE, FALSE) >>

RECURSIVE Pick(_, _)
\* the records of seq at the positions in idx, in order
Pick(seq, idx) ==
    IF idx = {} THEN <<>>
    ELSE LET m == CHOOSE i \in idx : \A j \in idx : i <= j
         IN <<seq[m]>> \o Pick(seq, idx \ {m})

Universes ==
    { Pick(SampleTypes, idx) :
        idx \in { x \in SUBSET (1..Len(SampleTypes)) : Cardinality(x) <= MaxTypes } }

\* Inputs of the matching specifications: every well-formed path (non-empty
\* segments separated by "/") over Alphabet of at most MaxPathLen characters,
\* as module path, import path and namespace or dependency argument.
Alphabet == {"a", "o", "/"}

RECURSIVE Strings(_)
Strings(n) ==
    IF n = 0 THEN {""}
    ELSE Strings(n - 1) \cup { s \o c : s \in Strings(n - 1), c \in Alphabet }

IsPath(s) ==
    /\ s # ""
    /\ ~HasPrefix(s, "/")
    /\ ~HasSuffix(s, "/")
    /\ ~Contains(s, "//")

Paths == { s \in Strings(MaxPathLen) : IsPath(s) }

\* pkg.Name of a package is the last element of its pkg.PkgPath
LastSegment(path) ==
    LET starts == { i \in 1..Len(path) : i = 1 \/ SubSeq(path, i - 1, i - 1) = "/" }
        last == CHOOSE i \in starts : \A j \in starts : j <= i
    IN SubSeq(path, last, Len(path))

\* one type declared in package path, which imports nothing
PathProbe(path) == TypeInfo("T", LastSegment(path), path, <<>>, <<>>, TRUE, FALSE)

\* one type declared in package app, which has the given imports
ImportProbe(imports) == TypeInfo("T", "app", "app", imports, <<>>, TRUE, FALSE)

\* the imports that precede the enumerated one: none, or the standard library
LeadingImports == { <<>>, << "fmt" >> }

\* Inputs of the union specification: two packages named model in different
\* directories that both declare User, and a second type in the first one.
OrSampleTypes ==
    << TypeInfo("User", "model", "app/a/model", <<>>, <<>>, TRUE, FALSE),
       TypeInfo("Order", "model", "app/a/model", <<>>, <<>>, TRUE, FALSE),
       TypeInfo("User", "model", "app/b/model", <<>>, <<>>, TRUE, FALSE) >>

OrUniverses ==
    { Pick(OrSampleTypes, idx) :
        idx \in { x \in SUBSET (1..Len(OrSampleTypes)) : Cardinality(x) <= MaxTypes } }

OrNamespaceArgs == {"app/a", "app/b"}

NamespaceArgs == {"app/domain", "infrastructure"}
DependencyArgs == {"app/infrastructure", "domain"}
SuffixArgs == {"Repository"}

(***************************************************************************)
(* Slices.  A Go slice is a header (backing array, length) over an array   *)
(* with a capacity; two headers over one array see each other's writes.    *)
(* An array is kept as the slots written so far and its capacity; arr = 0  *)
(* is the header of a nil or empty slice, whose capacity is 0.             *)
(***************************************************************************)
\* the capacity an allocation may leave unused: none, or one slot
Spares == {0, 1}

Slice(arr, len) == [arr |-> arr, len |-> len]

NilSlice == Slice(0, 0)

Array(elems, cap) == [elems |-> elems, cap |-> cap]

CapOf(arrays, sl) == IF sl.arr = 0 THEN 0 ELSE arrays[sl.arr].cap

\* the elements a header shows
Elems(arrays, sl) == IF sl.arr = 0 THEN <<>> ELSE SubSeq(arrays[sl.arr].elems, 1, sl.len)

\* append(sl, x): written in place when capacity is left, else the elements
\* move to a new array that has spare more slots than it needs
GoAppend(arrays, sl, x, spare) ==
    IF sl.len < CapOf(arrays, sl)
    THEN [arrays |-> [arrays EXCEPT ![sl.arr].elems =
                          SubSeq(@, 1, sl.len) \o << x >> \o SubSeq(@, sl.len + 2, Len(@))],
          slice |-> Slice(sl.arr, sl.len + 1)]
    ELSE [arrays |-> Append(arrays, Array(Append(Elems(arrays, sl), x), sl.len + 1 + spare)),
          slice |-> Slice(Len(arrays) + 1, sl.len + 1)]

RECURSIVE GoAppendAll(_, _, _, _)
\* a loop of append(sl, x) over the elements xs
GoAppendAll(arrays, sl, xs, spare) ==
    IF xs = <<>> THEN [arrays |-> arrays, slice |-> sl]
    ELSE LET a == GoAppend(arrays, sl, xs[1], spare)
         IN GoAppendAll(a.arrays, a.slice, Tail(xs), spare)

\* mutant of CopyOf: the header is handed on, the array is shared
CopyOfShared(arrays, sl, spare) == [arrays |-> arrays, slice |-> sl]

\* append([]T{}, sl...): the elements of sl in an array of their own
CopyOf(arrays, sl, spare) ==
    IF sl.len = 0 THEN [arrays |-> arrays, slice |-> NilSlice]
    ELSE [arrays |-> Append(arrays, Array(Elems(arrays, sl), sl.len + spare)),
          slice |-> Slice(Len(arrays) + 1, sl.len)]

\* a TypeSet as it is stored: its three slices are headers
StoredTypeSet(types, originalTypes, currentPredicate, matchedPredicates) ==
    [types |-> types, originalTypes |-> originalTypes,
     currentPredicate |-> currentPredicate, matchedPredicates |-> matchedPredicates]

\* extractTypesFromPackages: types and originalTypes are one header
Extracted(records, spare) ==
    LET a == GoAppendAll(<<>>, NilSlice, records, spare)
    IN [arrays |-> a.arrays,
        sets |-> << StoredTypeSet(a.slice, a.slice, "", NilSlice) >>]

\* what the caller reads through the headers of stored TypeSet i
ViewOf(m, i) ==
    TypeSet(Elems(m.arrays, m.sets[i].types), Elems(m.arrays, m.sets[i].originalTypes),
            m.sets[i].currentPredicate, Elems(m.arrays, m.sets[i].matchedPredicates))

View(m) == [i \in 1..Len(m.sets) |-> ViewOf(m, i)]

(***************************************************************************)
(* State.  heap[1] is Types.typeSet; cur is the *TypeSet the caller holds  *)
(* (0 before the first That()); result is the last Result, emptied by the  *)
(* next call.  pattern is the ArchitecturePattern that has been built (at  *)
(* most one) and results the slice Validate is filling.  goroutines holds  *)
(* the chains that run in parallel on the Types value, each with its       *)
(* position, its cursor and its Result.  trace (the calls                  *)
(* the caller made, with their receivers) and snapshot (per TypeSet, the   *)
(* records at the last Should()) are history variables.  memory is the     *)
(* TypeSets as stored, with the arrays behind their slices.                *)
(***************************************************************************)
\* InPath: the Types value built from the extracted records
InPath(records) ==
    /\ universe = records
    /\ heap = << extractTypesFromPackages(records) >>
    /\ cur = 0
    /\ result = <<>>
    /\ trace = <<>>
    /\ snapshot = << records >>
    /\ pattern = <<>>
    /\ results = <<>>
    /\ goroutines = <<>>
    /\ memory = Extracted(records, 0)

Init == \E records \in Universes : InPath(records)

Call(op, arg) == [op |-> op, arg |-> arg, recv |-> cur]

CanCall == cur # 0 /\ Len(trace) < MaxCalls

\* the predicate returns a new TypeSet; the receiver keeps all but currentPredicate
ReturnNew(op, arg, new) ==
    /\ heap' = Append([heap EXCEPT ![cur].currentPredicate = new.currentPredicate], new)
    /\ snapshot' = Append(snapshot, snapshot[cur])
    /\ cur' = Len(heap) + 1
    /\ result' = <<>>
    /\ trace' = Append(trace, Call(op, arg))
    /\ UNCHANGED <<universe, pattern, results, goroutines, memory>>

\* the predicate assigns to the receiver's fields and returns the receiver
ReturnSelf(op, arg, new) ==
    /\ heap' = [heap EXCEPT ![cur] = new]
    /\ result' = <<>>
    /\ trace' = Append(trace, Call(op, arg))
    /\ UNCHANGED <<universe, cur, snapshot, pattern, results, goroutines, memory>>

\* Types.That / TypeSet.That
That ==
    /\ heap' = [heap EXCEPT ![1].currentPredicate = "That"]
    /\ cur' = 1
    /\ result' = <<>>
    /\ UNCHANGED <<universe, trace, snapshot, pattern, results, goroutines, memory>>

ResideInNamespace(namespace) ==
    /\ CanCall
    /\ ReturnNew("ResideInNamespace", namespace, ResideInNamespaceSet(heap[cur], namespace))

HaveDependencyOn(dependency) ==
    /\ CanCall
    /\ ReturnNew("HaveDependencyOn", dependency, HaveDependencyOnSet(heap[cur], dependency))

DoNotHaveDependencyOn(dependency) ==
    /\ CanCall
    /\ ReturnSelf("DoNotHaveDependencyOn", dependency,
                  DoNotHaveDependencyOnSet(heap[cur], dependency))

DoNotResideInNamespace(namespace) ==
    /\ CanCall
    /\ ReturnSelf("DoNotResideInNamespace", namespace,
                  DoNotResideInNamespaceSet(heap[cur], namespace))

BeStruct ==
    /\ CanCall
    /\ ReturnSelf("BeStruct", "", BeStructSet(heap[cur]))

HaveNameEndingWith(suffix) ==
    /\ CanCall
    /\ ReturnSelf("HaveNameEndingWith", suffix, HaveNameEndingWithSet(heap[cur], suffix))

Should ==
    /\ CanCall
    /\ heap' = [heap EXCEPT ![cur] = ShouldSet(heap[cur])]
    /\ snapshot' = [snapshot EXCEPT ![cur] = heap[cur].types]
    /\ result' = <<>>
    /\ trace' = Append(trace, Call("Should", ""))
    /\ UNCHANGED <<universe, cur, pattern, results, goroutines, memory>>

ShouldNot ==
    /\ CanCall
    /\ ReturnNew("ShouldNot", "", ShouldNotSet(heap[cur]))

GetResult ==
    /\ cur # 0
    /\ result' = << GetResultOf(heap[cur]) >>
    /\ UNCHANGED <<universe, heap, cur, trace, snapshot, pattern, results, goroutines, memory>>

Next ==
    \/ That
    \/ \E namespace \in NamespaceArgs : ResideInNamespace(namespace)
    \/ \E dependency \in DependencyArgs : HaveDependencyOn(dependency)
    \/ BeStruct
    \/ \E suffix \in SuffixArgs : HaveNameEndingWith(suffix)
    \/ Should
    \/ ShouldNot
    \/ GetResult

Spec == Init /\ [][Next]_vars

(***************************************************************************)
(* The matching specifications: one record, and the namespace predicates   *)
(* (or the dependency predicates) called on it with one and the same       *)
(* argument, over every path and every argument of the bounded alphabet.   *)
(***************************************************************************)
Probe(arg) ==
    /\ Len(trace) < MaxProbes
    /\ trace # <<>> => trace[1].arg = arg

InitNamespace == \E path \in Paths : InPath(<< PathProbe(path) >>)

NextNamespace ==
    \/ That
    \/ \E namespace \in Paths : Probe(namespace) /\ ResideInNamespace(namespace)
    \/ \E namespace \in Paths : Probe(namespace) /\ DoNotResideInNamespace(namespace)

SpecNamespace == InitNamespace /\ [][NextNamespace]_vars

InitDependency ==
    \E imp \in Paths, leading \in LeadingImports :
        InPath(<< ImportProbe(leading \o << imp >>) >>)

NextDependency ==
    \/ That
    \/ \E dependency \in Paths : Probe(dependency) /\ HaveDependencyOn(dependency)
    \/ \E dependency \in Paths : Probe(dependency) /\ DoNotHaveDependencyOn(dependency)

SpecDependency == InitDependency /\ [][NextDependency]_vars

(***************************************************************************)
(* The union specification: TypeSets obtained with ResideInNamespace from  *)
(* one Types value, combined with Or; the argument of Or is any TypeSet    *)
(* the caller has obtained so far, the receiver included.                  *)
(***************************************************************************)
Or(other) ==
    /\ CanCall
    /\ ReturnSelf("Or", other, OrSet(heap[cur], heap[other]))

InitOr == \E records \in OrUniverses : InPath(records)

NextOr ==
    \/ That
    \/ \E namespace \in OrNamespaceArgs : ResideInNamespace(namespace)
    \/ \E other \in 1..Len(heap) : Or(other)

SpecOr == InitOr /\ [][NextOr]_vars

(***************************************************************************)
(* Architecture patterns.  A Rule's Validate closure is the chain of calls *)
(* it makes on types.That(), with the namespaces it captured as the        *)
(* arguments; GetResult ends every chain.                                  *)
(***************************************************************************)
Step(op, arg) == [op |-> op, arg |-> arg]

Rule(description, validate) == [Description |-> description, Validate |-> validate]

ArchitecturePattern(name, rules) == [Name |-> name, Rules |-> rules]

ValidationResult(patternName, ruleIndex, ruleDescription, isSuccessful, failingTypes) ==
    [PatternName |-> patternName, RuleIndex |-> ruleIndex,
     RuleDescription |-> ruleDescription, IsSuccessful |-> isSuccessful,
     FailingTypes |-> failingTypes]

\* types.That().ResideInNamespace(scope).ShouldNot().HaveDependencyOn(forbidden)
NotDependChain(scope, forbidden) ==
    << Step("ResideInNamespace", scope), Step("ShouldNot", ""),
       Step("HaveDependencyOn", forbidden) >>

RECURSIVE Concat(_)
\* the rules slice after appending, in order, every rule of every element
Concat(seqs) == IF seqs = <<>> THEN <<>> ELSE Head(seqs) \o Concat(Tail(seqs))

RECURSIVE Join(_, _)
\* strings.Join
Join(elems, sep) ==
    IF elems = <<>> THEN ""
    ELSE IF Len(elems) = 1 THEN elems[1]
         ELSE elems[1] \o sep \o Join(Tail(elems), sep)

\* fmt.Sprintf("<layer> layer (%s) should not depend on <other> (%s)", a, b)
LayerDescription(layer, a, other, b) ==
    layer \o " layer (" \o a \o ") should not depend on " \o other \o " (" \o b \o ")"

\* mutant of CleanArchitecture: the first three rules guard the infrastructure
\* layer and the fourth forbids application to depend on domain
CleanArchitectureInward(domainNamespace, applicationNamespace, infrastructureNamespace, presentationNamespace) ==
    ArchitecturePattern("Clean Architecture",
      << Rule(LayerDescription("Domain", infrastructureNamespace,
                               "application layer", applicationNamespace),
              NotDependChain(infrastructureNamespace, applicationNamespace)),
         Rule(LayerDescription("Domain", infrastructureNamespace,
                               "infrastructure layer", domainNamespace),
              NotDependChain(infrastructureNamespace, domainNamespace)),
         Rule(LayerDescription("Domain", infrastructureNamespace,
                               "presentation layer", presentationNamespace),
              NotDependChain(infrastructureNamespace, presentationNamespace)),
         Rule(LayerDescription("Application", applicationNamespace,
                               "infrastructure layer", domainNamespace),
              NotDependChain(applicationNamespace, domainNamespace)),
         Rule(LayerDescription("Application", applicationNamespace,
                               "presentation layer", presentationNamespace),
              NotDependChain(applicationNamespace, presentationNamespace)),
         Rule(LayerDescription("Presentation", presentationNamespace,
                               "infrastructure layer", domainNamespace),
              NotDependChain(presentationNamespace, domainNamespace)) >>)

CleanArchitecture(domainNamespace, applicationNamespace, infrastructureNamespace, presentationNamespace) ==
    ArchitecturePattern("Clean Architecture",
      << Rule(LayerDescription("Domain", domainNamespace,
                               "application layer", applicationNamespace),
              NotDependChain(domainNamespace, applicationNamespace)),
         Rule(LayerDescription("Domain", domainNamespace,
                               "infrastructure layer", infrastructureNamespace),
              NotDependChain(domainNamespace, infrastructureNamespace)),
         Rule(LayerDescription("Domain", domainNamespace,
                               "presentation layer", presentationNamespace),
              NotDependChain(domainNamespace, presentationNamespace)),
         Rule(LayerDescription("Application", applicationNamespace,
                               "infrastructure layer", infrastructureNamespace),
              NotDependChain(applicationNamespace, infrastructureNamespace)),
         Rule(LayerDescription("Application", applicationNamespace,
                               "presentation layer", presentationNamespace),
              NotDependChain(applicationNamespace, presentationNamespace)),
         Rule(LayerDescription("Presentation", presentationNamespace,
                               "infrastructure layer", infrastructureNamespace),
              NotDependChain(presentationNamespace, infrastructureNamespace)) >>)

\* the rule built in the body of the inner loop
LayerRule(currentLayer, higherLayer) ==
    Rule("Layer " \o currentLayer \o " should not depend on higher layer " \o higherLayer,
         NotDependChain(currentLayer, higherLayer))

\* mutant of LayeredArchitecture: the inner loop starts at j = i
LayeredArchitectureFromSelf(layers) ==
    ArchitecturePattern(
      "Layered Architecture (" \o Join(layers, " -> ") \o ")",
      Concat([ i \in 1..Len(layers) |->
                 [ d \in 1..(Len(layers) - i + 1) |->
                     LayerRule(layers[i], layers[i + d - 1]) ] ]))

\* for i := 0..n-1 { for j := i+1..n-1 { rules = append(rules, rule) } }
LayeredArchitecture(layers) ==
    ArchitecturePattern(
      "Layered Architecture (" \o Join(layers, " -> ") \o ")",
      Concat([ i \in 1..Len(layers) |->
                 [ d \in 1..(Len(layers) - i) |-> LayerRule(layers[i], layers[i + d]) ] ]))

\* the three rules appended for one domain by the first loop
IntraContextRules(domain) ==
    LET domainNS == "internal/" \o domain \o "/domain"
        applicationNS == "internal/" \o domain \o "/application"
        infrastructureNS == "internal/" \o domain \o "/infrastructure"
    IN << Rule(LayerDescription("Domain", domainNS, "application layer", applicationNS),
               NotDependChain(domainNS, applicationNS)),
          Rule(LayerDescription("Domain", domainNS, "infrastructure layer", infrastructureNS),
               NotDependChain(domainNS, infrastructureNS)),
          Rule(LayerDescription("Application", applicationNS,
                                "infrastructure layer", infrastructureNS),
               NotDependChain(applicationNS, infrastructureNS)) >>

\* the rule appended by the second loop for i != j
IsolationRule(domain1, domain2) ==
    Rule("Domain " \o domain1 \o " should not depend on domain " \o domain2
             \o " (bounded context isolation)",
         NotDependChain("internal/" \o domain1, "internal/" \o domain2))

\* the two rules appended for one domain by the third loop
SharedKernelRules(domain, sharedNamespace) ==
    LET applicationNS == "internal/" \o domain \o "/application"
        infrastructureNS == "internal/" \o domain \o "/infrastructure"
    IN << Rule(LayerDescription("Application", applicationNS,
                                "shared kernel", sharedNamespace),
               NotDependChain(applicationNS, sharedNamespace)),
          Rule(LayerDescription("Infrastructure", infrastructureNS,
                                "shared kernel", sharedNamespace),
               NotDependChain(infrastructureNS, sharedNamespace)) >>

\* mutant of DDDWithCleanArchitecture: one isolation rule per unordered pair
DDDWithCleanArchitectureUnordered(domains, sharedNamespace, pkgNamespace) ==
    ArchitecturePattern(
      "DDD with Clean Architecture (domains: " \o Join(domains, ", ") \o ")",
      Concat([ k \in 1..Len(domains) |-> IntraContextRules(domains[k]) ])
      \o Concat([ i \in 1..Len(domains) |->
                   Concat([ j \in 1..Len(domains) |->
                              IF i < j THEN << IsolationRule(domains[i], domains[j]) >>
                                       ELSE <<>> ]) ])
      \o (IF sharedNamespace # ""
          THEN Concat([ k \in 1..Len(domains) |->
                          SharedKernelRules(domains[k], sharedNamespace) ])
          ELSE <<>>))

DDDWithCleanArchitecture(domains, sharedNamespace, pkgNamespace) ==
    ArchitecturePattern(
      "DDD with Clean Architecture (domains: " \o Join(domains, ", ") \o ")",
      Concat([ k \in 1..Len(domains) |-> IntraContextRules(domains[k]) ])
      \o Concat([ i \in 1..Len(domains) |->
                   Concat([ j \in 1..Len(domains) |->
                              IF i # j THEN << IsolationRule(domains[i], domains[j]) >>
                                       ELSE <<>> ]) ])
      \o (IF sharedNamespace # ""
          THEN Concat([ k \in 1..Len(domains) |->
                          SharedKernelRules(domains[k], sharedNamespace) ])
          ELSE <<>>))

\* types.That().ResideInNamespace(scope).Should().HaveDependencyOn(required)
DependChain(scope, required) ==
    << Step("ResideInNamespace", scope), Step("Should", ""),
       Step("HaveDependencyOn", required) >>

\* the closure of the rule "Domain layer (%s) should exist": it reads the
\* records of types.That().ResideInNamespace(domainNamespace) and builds its
\* Result itself; the last step stands for the read of the types field
DomainExistsChain(domainNamespace) ==
    << Step("ResideInNamespace", domainNamespace), Step("types", domainNamespace) >>

\* the Result that closure returns for the TypeSet it read
DomainExistsResult(ts, domainNamespace) ==
    IF Len(ts.types) = 0
    THEN Result(FALSE, << TypeInfo("Domain", domainNamespace, "No domain types found",
                                   <<>>, <<>>, FALSE, FALSE) >>)
    ELSE Result(TRUE, <<>>)

HexagonalArchitecture(domainNamespace, portsNamespace, adaptersNamespace) ==
    ArchitecturePattern("Hexagonal Architecture",
      << Rule(LayerDescription("Domain", domainNamespace, "ports layer", portsNamespace),
              NotDependChain(domainNamespace, portsNamespace)),
         Rule(LayerDescription("Domain", domainNamespace, "adapters layer", adaptersNamespace),
              NotDependChain(domainNamespace, adaptersNamespace)),
         Rule("Domain layer (" \o domainNamespace \o ") should exist",
              DomainExistsChain(domainNamespace)),
         Rule("Adapters (" \o adaptersNamespace \o ") should implement a Port interface",
              << Step("ResideInNamespace", adaptersNamespace), Step("Should", ""),
                 Step("ImplementInterface", "Port") >>) >>)

MVCArchitecture(modelNamespace, viewNamespace, controllerNamespace) ==
    ArchitecturePattern("MVC Architecture",
      << Rule(LayerDescription("Model", modelNamespace, "view layer", viewNamespace),
              NotDependChain(modelNamespace, viewNamespace)),
         Rule(LayerDescription("Model", modelNamespace, "controller layer", controllerNamespace),
              NotDependChain(modelNamespace, controllerNamespace)),
         Rule(LayerDescription("View", viewNamespace, "controller layer", controllerNamespace),
              NotDependChain(viewNamespace, controllerNamespace)) >>)

\* fmt.Sprintf("<what> (%s) <verb> <other> (%s)<tail>", a, b)
PairDescription(what, a, verb, other, b, tail) ==
    what \o " (" \o a \o ") " \o verb \o " " \o other \o " (" \o b \o ")" \o tail

CQRSArchitecture(commandNamespace, queryNamespace, domainNamespace, writeModelNamespace, readModelNamespace) ==
    ArchitecturePattern("CQRS Architecture",
      << Rule(PairDescription("Commands", commandNamespace, "should not depend on",
                              "queries", queryNamespace, " - separation of concerns"),
              NotDependChain(commandNamespace, queryNamespace)),
         Rule(PairDescription("Queries", queryNamespace, "should not depend on",
                              "commands", commandNamespace, " - separation of concerns"),
              NotDependChain(queryNamespace, commandNamespace)) >>
      \o (IF writeModelNamespace # "" /\ readModelNamespace # ""
          THEN << Rule(PairDescription("Write models", writeModelNamespace,
                                       "should not depend on", "read models",
                                       readModelNamespace, ""),
                       NotDependChain(writeModelNamespace, readModelNamespace)),
                  Rule(PairDescription("Read models", readModelNamespace,
                                       "should not depend on", "write models",
                                       writeModelNamespace, ""),
                       NotDependChain(readModelNamespace, writeModelNamespace)),
                  Rule(PairDescription("Commands", commandNamespace,
                                       "should not depend on", "read models",
                                       readModelNamespace, ""),
                       NotDependChain(commandNamespace, readModelNamespace)),
                  Rule(PairDescription("Queries", queryNamespace,
                                       "should not depend on", "write models",
                                       writeModelNamespace, ""),
                       NotDependChain(queryNamespace, writeModelNamespace)) >>
          ELSE <<>>))

EventSourcedCQRSArchitecture(commandNamespace, queryNamespace, eventNamespace, eventStoreNamespace, projectionNamespace, domainNamespace) ==
    ArchitecturePattern("Event Sourced CQRS Architecture",
      CQRSArchitecture(commandNamespace, queryNamespace, domainNamespace, "", "").Rules
      \o (IF eventNamespace # ""
          THEN << Rule(PairDescription("Commands", commandNamespace, "should depend on",
                                       "events", eventNamespace, " to produce them"),
                       DependChain(commandNamespace, eventNamespace)) >>
          ELSE <<>>)
      \o (IF eventStoreNamespace # ""
          THEN << Rule(PairDescription("Commands", commandNamespace, "should depend on",
                                       "event store", eventStoreNamespace, ""),
                       DependChain(commandNamespace, eventStoreNamespace)) >>
          ELSE <<>>)
      \o (IF eventStoreNamespace # ""
          THEN << Rule(PairDescription("Queries", queryNamespace, "should not depend on",
                                       "event store", eventStoreNamespace, " directly"),
                       NotDependChain(queryNamespace, eventStoreNamespace)) >>
          ELSE <<>>)
      \o (IF projectionNamespace # "" /\ eventNamespace # ""
          THEN << Rule(PairDescription("Projections", projectionNamespace, "should depend on",
                                       "events", eventNamespace, " to build read models"),
                       DependChain(projectionNamespace, eventNamespace)) >>
          ELSE <<>>)
      \o (IF projectionNamespace # ""
          THEN << Rule(PairDescription("Queries", queryNamespace, "should depend on",
                                       "projections", projectionNamespace,
                                       " not directly on events"),
                       DependChain(queryNamespace, projectionNamespace)) >>
          ELSE <<>>))

(***************************************************************************)
(* Running a rule: the chain is applied call by call to the heap, each     *)
(* call on the TypeSet the previous one returned.                          *)
(***************************************************************************)
\* the TypeSet the called predicate computes from its receiver
Computed(ts, call) ==
    CASE call.op = "ResideInNamespace" -> ResideInNamespaceSet(ts, call.arg)
      [] call.op = "HaveDependencyOn" -> HaveDependencyOnSet(ts, call.arg)
      [] call.op = "DoNotHaveDependencyOn" -> DoNotHaveDependencyOnSet(ts, call.arg)
      [] call.op = "HaveNameEndingWith" -> HaveNameEndingWithSet(ts, call.arg)
      [] call.op = "HaveNameStartingWith" -> HaveNameStartingWithSet(ts, call.arg)
      [] call.op = "AreInterfaces" -> AreInterfacesSet(ts)
      [] call.op = "BeStruct" -> BeStructSet(ts)
      [] call.op = "ImplementInterface" -> ImplementInterfaceSet(ts, call.arg)
      [] call.op = "Should" -> ShouldSet(ts)
      [] call.op = "ShouldNot" -> ShouldNotSet(ts)

\* mutant of Allocates: the two filters assign to their receiver as the other
\* predicates do
AllocatesNegationOnly(op) == op = "ShouldNot"

\* the predicates that return a new TypeSet; the others return their receiver
Allocates(op) == op \in {"ResideInNamespace", "HaveDependencyOn", "ShouldNot"}

\* one call on the TypeSet st.cur of st.heap
ApplyCall(st, call) ==
    LET new == Computed(st.heap[st.cur], call)
    IN IF Allocates(call.op)
       THEN [heap |-> Append([st.heap EXCEPT ![st.cur].currentPredicate =
                                                  new.currentPredicate], new),
             cur |-> Len(st.heap) + 1]
       ELSE [heap |-> [st.heap EXCEPT ![st.cur] = new], cur |-> st.cur]

RECURSIVE RunChain(_, _, _)
RunChain(st, chain, k) ==
    IF k > Len(chain) THEN st ELSE RunChain(ApplyCall(st, chain[k]), chain, k + 1)

\* the closure reads the types field instead of calling GetResult
ReadsTypes(chain) == chain # <<>> /\ chain[Len(chain)].op = "types"

\* rule.Validate(types): types.That(), the chain, then GetResult or the
\* Result the closure builds
RunRule(h, rule) ==
    LET chain == rule.Validate
        calls == IF ReadsTypes(chain) THEN SubSeq(chain, 1, Len(chain) - 1) ELSE chain
        st == RunChain([heap |-> [h EXCEPT ![1].currentPredicate = "That"], cur |-> 1],
                       calls, 1)
    IN [heap |-> st.heap,
        result |-> IF ReadsTypes(chain)
                   THEN DomainExistsResult(st.heap[st.cur], chain[Len(chain)].arg)
                   ELSE GetResultOf(st.heap[st.cur])]

\* Inputs of the pattern specification.
RECURSIVE Lists(_, _)
\* the sequences of at most n elements of S
Lists(S, n) ==
    IF n = 0 THEN { <<>> }
    ELSE Lists(S, n - 1) \cup { Append(l, x) : l \in Lists(S, n - 1), x \in S }

LayerNames == {"app/domain", "app/application", "app/infrastructure"}
LayerLists == { l \in Lists(LayerNames, MaxLayers) : Len(l) >= 2 }

DomainNames == {"user", "order"}
DomainLists == Lists(DomainNames, MaxDomains)
SharedArgs == {"", "internal/shared"}
PkgArgs == {"pkg"}

\* extraction of a project laid out in bounded contexts with a shared kernel
DDDSampleTypes ==
    << TypeInfo("UserEntity", "domain", "internal/user/domain",
                << "internal/shared" >>, <<>>, TRUE, FALSE),
       TypeInfo("CreateUser", "application", "internal/user/application",
                << "internal/user/domain", "internal/shared" >>, <<>>, TRUE, FALSE) >>

DDDUniverses ==
    { Pick(DDDSampleTypes, idx) :
        idx \in { x \in SUBSET (1..Len(DDDSampleTypes)) : Cardinality(x) <= MaxTypes } }

CleanArgs == { << "app/domain", "app/application", "app/infrastructure", "app/presentation" >> }

\* user-defined rules, as written in the examples and tests of the repository
CustomRules ==
    { Rule("Repositories should be in infrastructure",
           << Step("HaveNameEndingWith", "Repository"), Step("Should", ""),
              Step("ResideInNamespace", "infrastructure") >>),
      Rule("Domain should not depend on infrastructure",
           NotDependChain("app/domain", "app/infrastructure")),
      Rule("Infrastructure types should be structs",
           << Step("ResideInNamespace", "infrastructure"), Step("Should", ""),
              Step("BeStruct", "") >>) }

CustomRuleLists == { l \in Lists(CustomRules, MaxRules) : l # <<>> }

(***************************************************************************)
(* The pattern specification: a pattern is built by one of the factory     *)
(* functions or as a literal, then Validate runs its rules on the Types    *)
(* value, one loop iteration per step.                                     *)
(***************************************************************************)
\* the caller builds pattern p by calling op with arg
Build(op, arg, p) ==
    /\ pattern = <<>>
    /\ pattern' = << p >>
    /\ trace' = Append(trace, Call(op, arg))
    /\ UNCHANGED <<universe, heap, cur, result, snapshot, results, goroutines, memory>>

\* mutant of Validate: the new result is put in front of the earlier ones
ValidateNewestFirst ==
    /\ pattern # <<>>
    /\ Len(results) < Len(pattern[1].Rules)
    /\ LET i == Len(results)
           rule == pattern[1].Rules[i + 1]
           run == RunRule(heap, rule)
       IN /\ heap' = << run.heap[1] >>
          /\ result' = << run.result >>
          /\ results' = << ValidationResult(pattern[1].Name, i, rule.Description,
                                            run.result.IsSuccessful,
                                            run.result.FailingTypes) >> \o results
    /\ cur' = 0
    /\ UNCHANGED <<universe, trace, snapshot, pattern, goroutines, memory>>

\* ArchitecturePattern.Validate: the iteration of the loop for rule i = len(results).
\* When rule.Validate returns, the TypeSets its chain allocated are unreachable;
\* Types.typeSet stays.
Validate ==
    /\ pattern # <<>>
    /\ Len(results) < Len(pattern[1].Rules)
    /\ LET i == Len(results)
           rule == pattern[1].Rules[i + 1]
           run == RunRule(heap, rule)
       IN /\ heap' = << run.heap[1] >>
          /\ result' = << run.result >>
          /\ results' = Append(results,
                               ValidationResult(pattern[1].Name, i, rule.Description,
                                                run.result.IsSuccessful,
                                                run.result.FailingTypes))
    /\ cur' = 0
    /\ UNCHANGED <<universe, trace, snapshot, pattern, goroutines, memory>>

NextPattern ==
    \/ \E a \in CleanArgs :
          Build("CleanArchitecture", a, CleanArchitecture(a[1], a[2], a[3], a[4]))
    \/ \E layers \in LayerLists :
          Build("LayeredArchitecture", layers, LayeredArchitecture(layers))
    \/ \E domains \in DomainLists, shared \in SharedArgs, pkg \in PkgArgs :
          Build("DDDWithCleanArchitecture", << domains, shared, pkg >>,
                DDDWithCleanArchitecture(domains, shared, pkg))
    \/ \E rules \in CustomRuleLists :
          Build("ArchitecturePattern", rules, ArchitecturePattern("Custom", rules))
    \/ Validate

\* the projects Validate runs on: the two-layer project, or two layers of the
\* user bounded context that use the shared kernel
InitPattern == \E records \in Universes \cup DDDUniverses : InPath(records)

SpecPattern == InitPattern /\ [][NextPattern]_vars

(***************************************************************************)
(* The parallel specification: two goroutines (t.Run with t.Parallel) each *)
(* run one chain on the cached Types value.  A step is one whole method    *)
(* call of one goroutine; the calls of the two interleave in any order.    *)
(***************************************************************************)
Goroutine(chain) == [chain |-> chain, pc |-> 0, cur |-> 0, result |-> <<>>]

\* the two subtests are started
Go(chain1, chain2) ==
    /\ goroutines = <<>>
    /\ goroutines' = << Goroutine(chain1), Goroutine(chain2) >>
    /\ UNCHANGED <<universe, heap, cur, result, trace, snapshot, pattern, results, memory>>

\* goroutine g calls types.That()
GoThat(g) ==
    /\ goroutines[g].pc = 0
    /\ heap' = [heap EXCEPT ![1].currentPredicate = "That"]
    /\ goroutines' = [goroutines EXCEPT ![g].pc = 1, ![g].cur = 1]
    /\ UNCHANGED <<universe, cur, result, trace, snapshot, pattern, results, memory>>

\* goroutine g makes the next call of its chain on the TypeSet it holds
GoCall(g) ==
    /\ goroutines[g].pc \in 1..Len(goroutines[g].chain)
    /\ LET st == ApplyCall([heap |-> heap, cur |-> goroutines[g].cur],
                           goroutines[g].chain[goroutines[g].pc])
       IN /\ heap' = st.heap
          /\ goroutines' = [goroutines EXCEPT ![g].pc = @ + 1, ![g].cur = st.cur]
    /\ UNCHANGED <<universe, cur, result, trace, snapshot, pattern, results, memory>>

\* goroutine g calls GetResult on the TypeSet it holds
GoGetResult(g) ==
    /\ goroutines[g].pc = Len(goroutines[g].chain) + 1
    /\ goroutines' = [goroutines EXCEPT ![g].pc = @ + 1,
                                        ![g].result = << GetResultOf(heap[goroutines[g].cur]) >>]
    /\ UNCHANGED <<universe, heap, cur, result, trace, snapshot, pattern, results, memory>>

NextParallel ==
    \/ \E r1 \in CustomRules, r2 \in CustomRules : Go(r1.Validate, r2.Validate)
    \/ \E g \in 1..Len(goroutines) : GoThat(g)
    \/ \E g \in 1..Len(goroutines) : GoCall(g)
    \/ \E g \in 1..Len(goroutines) : GoGetResult(g)

SpecParallel == Init /\ [][NextParallel]_vars

(***************************************************************************)
(* The negation specification: Not() followed by filter predicates, on the *)
(* TypeSet That() returns.                                                 *)
(***************************************************************************)
NotSet(ts) == [ts EXCEPT !.currentPredicate = "Not"]

\* Not: sets currentPredicate and returns the receiver; the log stays as it is
Not ==
    /\ CanCall
    /\ heap' = [heap EXCEPT ![cur] = NotSet(heap[cur])]
    /\ result' = <<>>
    /\ trace' = Append(trace, Call("Not", ""))
    /\ UNCHANGED <<universe, cur, snapshot, pattern, results, goroutines, memory>>

NextNot ==
    \/ That
    \/ Not
    \/ BeStruct
    \/ \E suffix \in SuffixArgs : HaveNameEndingWith(suffix)
    \/ GetResult

SpecNot == Init /\ [][NextNot]_vars

(***************************************************************************)
(* NameMatch.  The patterns used are literals joined by ".*", or are not   *)
(* regular expressions at all (an unclosed "[" or "("); a literal matches  *)
(* anywhere in the name, as regexp.MatchString is not anchored.            *)
(***************************************************************************)
\* regexp.Compile returns no error
Compiles(expr) ==
    /\ Contains(expr, "[") => Contains(expr, "]")
    /\ Contains(expr, "(") => Contains(expr, ")")

RECURSIVE Literals(_)
\* the literals of the expr, in order: the pieces between the ".*"
Literals(expr) ==
    IF ~Contains(expr, ".*") THEN << expr >>
    ELSE LET i == CHOOSE k \in 1..(Len(expr) - 1) :
                      /\ SubSeq(expr, k, k + 1) = ".*"
                      /\ \A m \in 1..(k - 1) : SubSeq(expr, m, m + 1) # ".*"
         IN << SubSeq(expr, 1, i - 1) >> \o Literals(SubSeq(expr, i + 2, Len(expr)))

RECURSIVE MatchLiterals(_, _)
\* the literals occur in s in this order, without overlap
MatchLiterals(literals, s) ==
    IF literals = <<>> THEN TRUE
    ELSE \E i \in 0..(Len(s) - Len(literals[1])) :
            /\ SubSeq(s, i + 1, i + Len(literals[1])) = literals[1]
            /\ MatchLiterals(Tail(literals), SubSeq(s, i + Len(literals[1]) + 1, Len(s)))

\* regex.MatchString(name) for a expr that compiles
MatchString(expr, name) == MatchLiterals(Literals(expr), name)

NameMatchSet(ts, expr) ==
    IF ~Compiles(expr)
    THEN [ts EXCEPT !.currentPredicate = "NameMatch", !.types = <<>>]
    ELSE Filtered(ts, "NameMatch",
                  SelectSeq(ts.types, LAMBDA t : MatchString(expr, t.Name)))

NameMatch(expr) ==
    /\ CanCall
    /\ ReturnSelf("NameMatch", expr, NameMatchSet(heap[cur], expr))

NamePatterns == { "Repo", "Sql.*Repo", "[Repo" }

NextNameMatch ==
    \/ That
    \/ \E expr \in NamePatterns : NameMatch(expr)
    \/ BeStruct
    \/ Should
    \/ ShouldNot
    \/ GetResult

SpecNameMatch == Init /\ [][NextNameMatch]_vars

(***************************************************************************)
(* The rule specification: the chain of TestCheckRule,                     *)
(* That().ResideInNamespace(ns).And().DoNotHaveDependencyOn(dep), on       *)
(* namespaces that cover one package or both.                              *)
(***************************************************************************)
AndSet(ts) == [ts EXCEPT !.currentPredicate = "And"]

\* And: sets currentPredicate and returns the receiver
And ==
    /\ CanCall
    /\ heap' = [heap EXCEPT ![cur] = AndSet(heap[cur])]
    /\ result' = <<>>
    /\ trace' = Append(trace, Call("And", ""))
    /\ UNCHANGED <<universe, cur, snapshot, pattern, results, goroutines, memory>>

RuleNamespaceArgs == {"app", "app/domain"}
RuleDependencyArgs == {"app/infrastructure", "infrastructure"}

NextRule ==
    \/ That
    \/ \E namespace \in RuleNamespaceArgs : ResideInNamespace(namespace)
    \/ And
    \/ \E dependency \in RuleDependencyArgs : DoNotHaveDependencyOn(dependency)
    \/ GetResult

SpecRule == Init /\ [][NextRule]_vars

(***************************************************************************)
(* The storage specification: the predicates as they act on the stored     *)
(* TypeSets.  memory is the store and heap is what the caller reads        *)
(* through it; spare is the capacity an allocation leaves unused, which    *)
(* the Go runtime chooses.                                                 *)
(***************************************************************************)
\* the body shared by ResideInNamespace and HaveDependencyOn: the receiver
\* gets currentPredicate, the new TypeSet the filtered records, the
\* receiver's baseline header and a copy of the log with the name appended
StoredFilterNew(m, recv, name, filteredTypes, spare) ==
    LET ts == m.sets[recv]
        f == GoAppendAll(m.arrays, NilSlice, filteredTypes, spare)
        c == CopyOf(f.arrays, ts.matchedPredicates, spare)
        a == GoAppend(c.arrays, c.slice, name, spare)
    IN [arrays |-> a.arrays,
        sets |-> Append([m.sets EXCEPT ![recv].currentPredicate = name],
                        StoredTypeSet(f.slice, ts.originalTypes, name, a.slice))]

StoredResideInNamespaceSet(m, recv, namespace, spare) ==
    StoredFilterNew(m, recv, "ResideInNamespace",
                    ResideInNamespaceSet(ViewOf(m, recv), namespace).types, spare)

StoredHaveDependencyOnSet(m, recv, dependency, spare) ==
    StoredFilterNew(m, recv, "HaveDependencyOn",
                    HaveDependencyOnSet(ViewOf(m, recv), dependency).types, spare)

\* ShouldNot: copies of the records and of the log, the baseline header shared
StoredShouldNotSet(m, recv, spare) ==
    LET ts == m.sets[recv]
        t == CopyOf(m.arrays, ts.types, spare)
        c == CopyOf(t.arrays, ts.matchedPredicates, spare)
        a == GoAppend(c.arrays, c.slice, "Negate", spare)
    IN [arrays |-> a.arrays,
        sets |-> Append([m.sets EXCEPT ![recv].currentPredicate = "ShouldNot"],
                        StoredTypeSet(t.slice, ts.originalTypes, "ShouldNot", a.slice))]

\* BeStruct: the receiver gets a new records slice and appends to its own log
StoredBeStructSet(m, recv, spare) ==
    LET ts == m.sets[recv]
        f == GoAppendAll(m.arrays, NilSlice, BeStructSet(ViewOf(m, recv)).types, spare)
        a == GoAppend(f.arrays, ts.matchedPredicates, "BeStruct", spare)
    IN [arrays |-> a.arrays,
        sets |-> [m.sets EXCEPT ![recv] =
                      StoredTypeSet(f.slice, ts.originalTypes, "BeStruct", a.slice)]]

\* Should: the baseline header becomes the records header
StoredShouldSet(m, recv) ==
    [arrays |-> m.arrays,
     sets |-> [m.sets EXCEPT ![recv].currentPredicate = "Should",
                             ![recv].originalTypes = m.sets[recv].types]]

\* Or: the records of other that are new are appended to the receiver's
\* records slice, then the name to its log
StoredOrSet(m, recv, other, spare) ==
    LET ts == m.sets[recv]
        union == OrSet(ViewOf(m, recv), ViewOf(m, other)).types
        t == GoAppendAll(m.arrays, ts.types, SubSeq(union, ts.types.len + 1, Len(union)), spare)
        a == GoAppend(t.arrays, ts.matchedPredicates, "Or", spare)
    IN [arrays |-> a.arrays,
        sets |-> [m.sets EXCEPT ![recv] =
                      StoredTypeSet(t.slice, ts.originalTypes, "Or", a.slice)]]

\* the call returns TypeSet next of the store m
Stored(op, arg, m, next) ==
    /\ memory' = m
    /\ heap' = View(m)
    /\ cur' = next
    /\ snapshot' = IF next = cur THEN snapshot ELSE Append(snapshot, snapshot[cur])
    /\ result' = <<>>
    /\ trace' = Append(trace, Call(op, arg))
    /\ UNCHANGED <<universe, pattern, results, goroutines>>

StoredThat ==
    /\ memory' = [memory EXCEPT !.sets[1].currentPredicate = "That"]
    /\ heap' = View(memory')
    /\ cur' = 1
    /\ result' = <<>>
    /\ UNCHANGED <<universe, trace, snapshot, pattern, results, goroutines>>

StoredResideInNamespace(namespace, spare) ==
    /\ CanCall
    /\ Stored("ResideInNamespace", namespace,
              StoredResideInNamespaceSet(memory, cur, namespace, spare), Len(heap) + 1)

StoredHaveDependencyOn(dependency, spare) ==
    /\ CanCall
    /\ Stored("HaveDependencyOn", dependency,
              StoredHaveDependencyOnSet(memory, cur, dependency, spare), Len(heap) + 1)

StoredShouldNot(spare) ==
    /\ CanCall
    /\ Stored("ShouldNot", "", StoredShouldNotSet(memory, cur, spare), Len(heap) + 1)

StoredBeStruct(spare) ==
    /\ CanCall
    /\ Stored("BeStruct", "", StoredBeStructSet(memory, cur, spare), cur)

StoredShould ==
    /\ CanCall
    /\ Stored("Should", "", StoredShouldSet(memory, cur), cur)

\* Or with the TypeSet of types.That() as its argument
StoredOr(spare) ==
    /\ CanCall
    /\ Stored("Or", "", StoredOrSet(memory, cur, 1, spare), cur)

StoredUniverses == { << SampleTypes[1], SampleTypes[3] >>, << SampleTypes[3], SampleTypes[4] >> }

InitStored ==
    \E records \in StoredUniverses, spare \in Spares :
        /\ universe = records
        /\ heap = << extractTypesFromPackages(records) >>
        /\ cur = 0
        /\ result = <<>>
        /\ trace = <<>>
        /\ snapshot = << records >>
        /\ pattern = <<>>
        /\ results = <<>>
        /\ goroutines = <<>>
        /\ memory = Extracted(records, spare)

NextStored ==
    \/ StoredThat
    \/ \E spare \in Spares : StoredResideInNamespace("app/domain", spare)
    \/ \E spare \in Spares : StoredHaveDependencyOn("app/domain", spare)
    \/ \E spare \in Spares : StoredShouldNot(spare)
    \/ \E spare \in Spares : StoredBeStruct(spare)
    \/ StoredShould
    \/ \E spare \in Spares : StoredOr(spare)

SpecStored == InitStored /\ [][NextStored]_vars

(***************************************************************************)
(* The built-in specification: a pattern is built by one of the seven      *)
(* factory functions and Validate is called on the Types value, once or    *)
(* again; a step is one whole call of Validate.                            *)
(***************************************************************************)
RECURSIVE RunRules(_, _, _)
\* the loop of Validate after its first n iterations, started on heap h: the
\* heap it has left and the results it has appended.  Iteration n runs when
\* the first n - 1 have returned and results holds their n - 1 entries.
RunRules(h, p, n) ==
    IF n = 0 THEN [heap |-> h, results |-> <<>>]
    ELSE LET before == RunRules(h, p, n - 1)
             rule == p.Rules[n]
             run == RunRule(before.heap, rule)
         IN CASE Len(before.results) = n - 1 ->
                 [heap |-> << run.heap[1] >>,
                  results |-> Append(before.results,
                                     ValidationResult(p.Name, n - 1, rule.Description,
                                                      run.result.IsSuccessful,
                                                      run.result.FailingTypes))]

\* ArchitecturePattern.Validate, the whole call
ValidatePattern ==
    /\ pattern # <<>>
    /\ Len(trace) < MaxCalls
    /\ LET run == RunRules(heap, pattern[1], Len(pattern[1].Rules))
       IN /\ heap' = run.heap
          /\ results' = run.results
    /\ cur' = 0
    /\ result' = <<>>
    /\ trace' = Append(trace, Call("Validate", ""))
    /\ UNCHANGED <<universe, snapshot, pattern, goroutines, memory>>

\* extraction of a project with a domain type and two adapters, one of which
\* implements Port
HexSampleTypes ==
    << SampleTypes[1],
       TypeInfo("HttpAdapter", "adapters", "app/adapters", << "app/ports" >>,
                << "Port" >>, TRUE, FALSE),
       TypeInfo("RawAdapter", "adapters", "app/adapters", << "app/domain" >>,
                <<>>, TRUE, FALSE) >>

HexUniverses ==
    { Pick(HexSampleTypes, idx) :
        idx \in { x \in SUBSET (1..Len(HexSampleTypes)) : Cardinality(x) <= MaxTypes } }

HexagonalArgs ==
    { << "app/domain", "app/ports", "app/adapters" >>,
      << "app/domain", "app/ports", "app/infrastructure" >> }

MVCArgs ==
    { << "app/domain", "app/view", "app/infrastructure" >>,
      << "app/infrastructure", "app/view", "app/domain" >> }

CQRSArgs ==
    { << "app/domain", "app/infrastructure", "app/shared", "", "" >>,
      << "app/domain", "app/infrastructure", "app/shared", "app/domain", "app/infrastructure" >> }

EventSourcedArgs ==
    { << "app/domain", "app/infrastructure", "app/infrastructure", "", "app/domain", "app/shared" >>,
      << "app/domain", "app/infrastructure", "", "app/infrastructure", "", "app/shared" >> }

NextBuiltin ==
    \/ \E a \in CleanArgs :
          Build("CleanArchitecture", a, CleanArchitecture(a[1], a[2], a[3], a[4]))
    \/ \E a \in HexagonalArgs :
          Build("HexagonalArchitecture", a, HexagonalArchitecture(a[1], a[2], a[3]))
    \/ \E layers \in LayerLists :
          Build("LayeredArchitecture", layers, LayeredArchitecture(layers))
    \/ \E a \in MVCArgs :
          Build("MVCArchitecture", a, MVCArchitecture(a[1], a[2], a[3]))
    \/ \E domains \in DomainLists, shared \in SharedArgs, pkg \in PkgArgs :
          Build("DDDWithCleanArchitecture", << domains, shared, pkg >>,
                DDDWithCleanArchitecture(domains, shared, pkg))
    \/ \E a \in CQRSArgs :
          Build("CQRSArchitecture", a, CQRSArchitecture(a[1], a[2], a[3], a[4], a[5]))
    \/ \E a \in EventSourcedArgs :
          Build("EventSourcedCQRSArchitecture", a,
                EventSourcedCQRSArchitecture(a[1], a[2], a[3], a[4], a[5], a[6]))
    \/ ValidatePattern

InitBuiltin == \E records \in Universes \cup DDDUniverses \cup HexUniverses : InPath(records)

SpecBuiltin == InitBuiltin /\ [][NextBuiltin]_vars

(***************************************************************************)
(* The filter specification: chains of the seven record filters.           *)
(***************************************************************************)
HaveNameStartingWith(prefix) ==
    /\ CanCall
    /\ ReturnSelf("HaveNameStartingWith", prefix, HaveNameStartingWithSet(heap[cur], prefix))

AreInterfaces ==
    /\ CanCall
    /\ ReturnSelf("AreInterfaces", "", AreInterfacesSet(heap[cur]))

FilterNamespaceArgs == {"infrastructure"}
FilterDependencyArgs == {"app/infrastructure"}
FilterForbiddenArgs == {"domain"}
PrefixArgs == {"User"}

NextFilter ==
    \/ That
    \/ \E namespace \in FilterNamespaceArgs : ResideInNamespace(namespace)
    \/ \E dependency \in FilterDependencyArgs : HaveDependencyOn(dependency)
    \/ \E dependency \in FilterForbiddenArgs : DoNotHaveDependencyOn(dependency)
    \/ BeStruct
    \/ AreInterfaces
    \/ \E suffix \in SuffixArgs : HaveNameEndingWith(suffix)
    \/ \E prefix \in PrefixArgs : HaveNameStartingWith(prefix)

SpecFilter == Init /\ [][NextFilter]_vars

(***************************************************************************)
(* Vocabulary of the properties.                                           *)
(***************************************************************************)
User == SampleTypes[1]
Repo == SampleTypes[3]

CallOf(op, arg, recv) == [op |-> op, arg |-> arg, recv |-> recv]

\* a Result has just been returned for the TypeSet the caller holds
HasResult == result # <<>> /\ cur # 0

Log == heap[cur].matchedPredicates

Negated == \E k \in 1..Len(Log) : Log[k] = "Negate"

Key(t) == <<t.FullPath, t.Name>>

\* the records of base whose (FullPath, Name) is not that of any record of types
Minus(base, types) ==
    SelectSeq(base, LAMBDA t : Key(t) \notin { Key(types[k]) : k \in 1..Len(types) })

\* x occurs in path starting after a "/" (or at the start) and ending before a
\* "/" (or at the end)
Aligned(path, x) ==
    \E i \in 1..(Len(path) - Len(x) + 1) :
        /\ SubSeq(path, i, i + Len(x) - 1) = x
        /\ (i = 1 \/ SubSeq(path, i - 1, i - 1) = "/")
        /\ (i + Len(x) - 1 = Len(path) \/ SubSeq(path, i + Len(x), i + Len(x)) = "/")

DependsOn(t, dep) == \E k \in 1..Len(t.Imports) : Aligned(t.Imports[k], dep)

(***************************************************************************)
(* C1 (stated as claimed; violated): a predicate call leaves the current   *)
(* records and the predicate log of its receiver as they were, so that a   *)
(* second chain started from the receiver afterwards sees what the first   *)
(* one saw.                                                                *)
(***************************************************************************)
C1_ReceiverUnchanged ==
    [][ trace' # trace =>
            /\ heap'[cur].types = heap[cur].types
            /\ heap'[cur].matchedPredicates = heap[cur].matchedPredicates ]_vars

(***************************************************************************)
(* C2: on a freshly loaded Types, the result of                            *)
(* That().ResideInNamespace(ns).ShouldNot().HaveDependencyOn(dep) fails     *)
(* exactly when some record resides in ns and imports dep, and its         *)
(* FailingTypes are exactly those records.                                 *)
(***************************************************************************)
C2_Chain(ns, dep) ==
    /\ HasResult
    /\ cur = 4
    /\ trace = << CallOf("ResideInNamespace", ns, 1), CallOf("ShouldNot", "", 2),
                  CallOf("HaveDependencyOn", dep, 3) >>

C2_Offenders(ns, dep) ==
    SelectSeq(universe, LAMBDA t : Aligned(t.FullPath, ns) /\ DependsOn(t, dep))

C2_ShouldNotDependRule ==
    \A ns \in NamespaceArgs, dep \in DependencyArgs :
        C2_Chain(ns, dep) =>
            /\ result[1].IsSuccessful = (C2_Offenders(ns, dep) = <<>>)
            /\ result[1].FailingTypes = C2_Offenders(ns, dep)

C2_Witness ==
    /\ universe = <<User, Repo>>
    /\ C2_Chain("app/domain", "app/infrastructure")
    /\ result[1] = Result(FALSE, <<User>>)

(***************************************************************************)
(* C3: with the negation sentinel anywhere in the log, GetResult succeeds  *)
(* iff the current records are empty, and a failing Result carries the     *)
(* current records as FailingTypes.                                        *)
(***************************************************************************)
C3_NegatedResult ==
    (HasResult /\ Negated) =>
        /\ result[1].IsSuccessful = (heap[cur].types = <<>>)
        /\ ~result[1].IsSuccessful => result[1].FailingTypes = heap[cur].types

C3_Witness ==
    /\ HasResult
    /\ Len(Log) = 3
    /\ Log[2] = "Negate"
    /\ ~result[1].IsSuccessful
    /\ result[1].FailingTypes = heap[cur].types

C5_SuccessHasNoFailingTypes ==
    (HasResult /\ result[1].IsSuccessful) => result[1].FailingTypes = <<>>

(***************************************************************************)
(* C6 (stated as claimed; violated): GetResult on the cursor That() just   *)
(* returned, no predicate having been called on it since, is successful    *)
(* with no FailingTypes, whatever chains were evaluated before.            *)
(***************************************************************************)
C6_FreshCursor ==
    /\ HasResult
    /\ cur = 1
    /\ heap[1].currentPredicate = "That"

C6_UnfilteredPasses == C6_FreshCursor => result[1] = Result(TRUE, <<>>)

(***************************************************************************)
(* C7 (stated as claimed; violated): the positive rule                     *)
(* That().ResideInNamespace(ns).Should().HaveNameEndingWith(suffix) is     *)
(* successful only if every record residing in ns has a name ending with   *)
(* suffix.                                                                 *)
(***************************************************************************)
C7_Chain(ns, suffix) ==
    /\ HasResult
    /\ cur = 2
    /\ trace = << CallOf("ResideInNamespace", ns, 1), CallOf("Should", "", 2),
                  CallOf("HaveNameEndingWith", suffix, 2) >>

C7_ShouldMeansAll ==
    \A ns \in NamespaceArgs, suffix \in SuffixArgs :
        (C7_Chain(ns, suffix) /\ result[1].IsSuccessful) =>
            \A k \in 1..Len(universe) :
                Aligned(universe[k].FullPath, ns) => HasSuffix(universe[k].Name, suffix)

(***************************************************************************)
(* C8 (stated as claimed; violated): HaveDependencyOn(dep) and             *)
(* DoNotHaveDependencyOn(dep), called on the same TypeSet, keep disjoint   *)
(* sets of records whose union is the receiver's records: each record is   *)
(* kept by exactly one of the two.                                         *)
(***************************************************************************)
KeptBy(types, t) == \E k \in 1..Len(types) : types[k] = t

C8_Pair(dep) ==
    trace = << CallOf("HaveDependencyOn", dep, 1), CallOf("DoNotHaveDependencyOn", dep, 1) >>

C8_DependencyComplement ==
    \A dep \in Paths :
        C8_Pair(dep) =>
            \A k \in 1..Len(universe) :
                KeptBy(heap[2].types, universe[k]) # KeptBy(heap[1].types, universe[k])

(***************************************************************************)
(* C9 (stated as claimed; violated): ResideInNamespace(ns) and             *)
(* DoNotResideInNamespace(ns), called on the same TypeSet, each record is  *)
(* kept by exactly one of the two.                                         *)
(***************************************************************************)
C9_Pair(ns) ==
    trace = << CallOf("ResideInNamespace", ns, 1), CallOf("DoNotResideInNamespace", ns, 1) >>

C9_NamespaceComplement ==
    \A ns \in Paths :
        C9_Pair(ns) =>
            \A k \in 1..Len(universe) :
                KeptBy(heap[2].types, universe[k]) # KeptBy(heap[1].types, universe[k])

(***************************************************************************)
(* C10: ResideInNamespace(ns) keeps a record iff ns occurs in its FullPath *)
(* aligned on "/" boundaries.                                              *)
(***************************************************************************)
C10_Call(ns) == trace = << CallOf("ResideInNamespace", ns, 1) >>

C11_Call(dep) == trace = << CallOf("HaveDependencyOn", dep, 1) >>

C11_WitnessInsideSegment ==
    /\ C11_Call("a")
    /\ universe[1].Imports = << "aa" >>
    /\ heap[2].types = <<>>

(***************************************************************************)
(* C12 (stated as claimed; violated): a.Or(b) leaves in a the union of the *)
(* records a and b had, records being identified by (FullPath, Name), and  *)
(* leaves a's baseline as it was.                                          *)
(***************************************************************************)
KeysOf(types) == { Key(types[k]) : k \in 1..Len(types) }

\* the step is a call of Or
OrStep == trace' # trace /\ trace'[Len(trace')].op = "Or"

C12_OrIsUnion ==
    [][ OrStep =>
            /\ KeysOf(heap'[cur].types) =
                   KeysOf(heap[cur].types) \cup KeysOf(heap[trace'[Len(trace')].arg].types)
            /\ heap'[cur].originalTypes = heap[cur].originalTypes ]_vars

(***************************************************************************)
(* C13: a.Or(a), receiver and argument being the same TypeSet object,      *)
(* leaves a's records as they were: nothing is appended.                   *)
(***************************************************************************)
C13_OrSelfIdempotent ==
    [][ (OrStep /\ trace'[Len(trace')].arg = cur) =>
            heap'[cur].types = heap[cur].types ]_vars

C13_Witness ==
    /\ trace # <<>>
    /\ trace[Len(trace)] = CallOf("Or", cur, cur)
    /\ Len(heap[cur].types) = 2
    /\ heap[cur].types = universe

(***************************************************************************)
(* C14 (stated as claimed; violated): whenever Validate is about to run a  *)
(* rule, the TypeSet the rule obtains through types.That() holds the whole *)
(* universe and an empty predicate log, whatever the rules before it did.  *)
(***************************************************************************)
RulePending == pattern # <<>> /\ Len(results) < Len(pattern[1].Rules)

C14_RulesSeeUniverse ==
    RulePending => (heap[1].types = universe /\ heap[1].matchedPredicates = <<>>)

(***************************************************************************)
(* C15: Validate's results are one ValidationResult per rule run so far,   *)
(* in rule order: the i-th carries RuleIndex i (from 0), the pattern's     *)
(* Name and the i-th rule's Description; the newest carries IsSuccessful   *)
(* and FailingTypes of the Result its rule just returned; and an iteration *)
(* adds one result behind the earlier ones, which stay as they were.       *)
(***************************************************************************)
C15_State ==
    pattern # <<>> =>
        /\ Len(results) <= Len(pattern[1].Rules)
        /\ \A i \in 1..Len(results) :
              /\ results[i].PatternName = pattern[1].Name
              /\ results[i].RuleIndex = i - 1
              /\ results[i].RuleDescription = pattern[1].Rules[i].Description
        /\ results # <<>> =>
              /\ results[Len(results)].IsSuccessful = result[1].IsSuccessful
              /\ results[Len(results)].FailingTypes = result[1].FailingTypes

C15_Kept ==
    results' # results =>
        /\ Len(results') = Len(results) + 1
        /\ SubSeq(results', 1, Len(results)) = results

C15_OneResultPerRule == []C15_State /\ [][C15_Kept]_vars

C15_Witness ==
    /\ pattern # <<>>
    /\ Len(pattern[1].Rules) >= 2
    /\ Len(results) = Len(pattern[1].Rules)
    /\ \E i \in 1..Len(results) :
          ~results[i].IsSuccessful /\ results[i].FailingTypes # <<>>
    /\ results[Len(results)].IsSuccessful

(***************************************************************************)
(* C16: LayeredArchitecture(l1..ln), n >= 2, has n(n-1)/2 rules; the rule  *)
(* for the pair i < j stands at the position the order (1,2),(1,3),...,    *)
(* (n-1,n) gives it, its chain is ResideInNamespace(li).ShouldNot().       *)
(* HaveDependencyOn(lj), and when Validate has run it, its FailingTypes    *)
(* are the records residing in li that import lj.                          *)
(***************************************************************************)
Built(op, arg) == trace = << CallOf(op, arg, 0) >> /\ pattern # <<>>

\* position (from 1) of the pair i < j in the order (1,2),(1,3),...,(n-1,n)
PairIndex(i, j, n) == (i - 1) * n - ((i - 1) * i) \div 2 + (j - i)

C16_LayeredRules ==
    \A layers \in LayerLists :
        Built("LayeredArchitecture", layers) =>
            LET n == Len(layers)
                rules == pattern[1].Rules
            IN /\ Len(rules) = (n * (n - 1)) \div 2
               /\ \A i \in 1..n, j \in 1..n :
                     i < j =>
                        LET k == PairIndex(i, j, n)
                        IN /\ rules[k].Validate = NotDependChain(layers[i], layers[j])
                           /\ k <= Len(results) =>
                                 results[k].FailingTypes
                                     = C2_Offenders(layers[i], layers[j])

C16_Witness ==
    /\ Built("LayeredArchitecture", << "app/domain", "app/application", "app/infrastructure" >>)
    /\ universe = << User, Repo >>
    /\ Len(pattern[1].Rules) = 3
    /\ Len(results) = 3
    /\ results[1].IsSuccessful
    /\ results[2].FailingTypes = << User >>
    /\ results[3].IsSuccessful

(***************************************************************************)
(* C17: DDDWithCleanArchitecture(domains, shared, pkg) with k contexts has *)
(* 3k intra-context rules (domain-not-application, domain-not-             *)
(* infrastructure, application-not-infrastructure per context), then one   *)
(* isolation rule per ordered pair of different contexts (k(k-1)), then,   *)
(* iff shared is not empty, 2k shared-kernel rules (application and        *)
(* infrastructure of each context not depending on shared).                *)
(***************************************************************************)
LayerNS(domain, layer) == "internal/" \o domain \o "/" \o layer

C17_WitnessNoShared ==
    /\ Built("DDDWithCleanArchitecture", << << "user", "order" >>, "", "pkg" >>)
    /\ Len(pattern[1].Rules) = 8

(***************************************************************************)
(* C18: in the results of CleanArchitecture(domain, application,           *)
(* infrastructure, presentation).Validate, every record of a rule's        *)
(* FailingTypes resides in the rule's scope namespace and imports the      *)
(* rule's forbidden namespace; no rule has scope infrastructure and        *)
(* forbidden namespace domain; and Repo (infrastructure, importing domain) *)
(* is in no rule's FailingTypes.                                           *)
(***************************************************************************)
ScopeOf(rule) == rule.Validate[1].arg

ForbiddenOf(rule) == rule.Validate[3].arg

C18_CleanAllowsInward ==
    \A a \in CleanArgs :
        Built("CleanArchitecture", a) =>
            LET rules == pattern[1].Rules
            IN /\ \A i \in 1..Len(rules) :
                     ~(ScopeOf(rules[i]) = a[3] /\ ForbiddenOf(rules[i]) = a[1])
               /\ \A i \in 1..Len(results) :
                     /\ ~KeptBy(results[i].FailingTypes, Repo)
                     /\ \A k \in 1..Len(results[i].FailingTypes) :
                           /\ Aligned(results[i].FailingTypes[k].FullPath, ScopeOf(rules[i]))
                           /\ DependsOn(results[i].FailingTypes[k], ForbiddenOf(rules[i]))

C18_Witness ==
    /\ Built("CleanArchitecture",
             << "app/domain", "app/application", "app/infrastructure", "app/presentation" >>)
    /\ universe = << User, Repo >>
    /\ Len(results) = 6
    /\ results[2].FailingTypes = << User >>
    /\ \A i \in 1..6 : i # 2 => results[i].IsSuccessful

(***************************************************************************)
(* C19 (stated as claimed; violated): when two chains run in parallel on   *)
(* one Types value, the Result each goroutine gets is the Result its chain *)
(* gives when it runs alone on a freshly loaded Types of the same          *)
(* universe.                                                               *)
(***************************************************************************)
Alone(chain) ==
    RunRule(<< extractTypesFromPackages(universe) >>, Rule("", chain)).result

C19_ParallelAsAlone ==
    \A g \in 1..Len(goroutines) :
        goroutines[g].result # <<>> =>
            goroutines[g].result[1] = Alone(goroutines[g].chain)

(***************************************************************************)
(* C20 (stated as claimed; violated): the Result of a chain in which       *)
(* Should() comes after an earlier ShouldNot() is that of a positive       *)
(* assertion: successful iff some record remains.                          *)
(***************************************************************************)
\* the TypeSet call k of the trace returned
Returned(k) ==
    IF Allocates(trace[k].op)
    THEN 1 + Cardinality({ m \in 1..k : Allocates(trace[m].op) })
    ELSE trace[k].recv

\* the calls made so far are one chain on That(), and cur is its last TypeSet
OneChain ==
    /\ trace # <<>>
    /\ trace[1].recv = 1
    /\ \A k \in 1..(Len(trace) - 1) : trace[k + 1].recv = Returned(k)
    /\ cur = Returned(Len(trace))

\* ShouldNot(), later Should(), and at least one predicate after it
ShouldAfterShouldNot ==
    \E k \in 1..Len(trace), m \in 1..Len(trace) :
        k < m /\ m < Len(trace) /\ trace[k].op = "ShouldNot" /\ trace[m].op = "Should"

C20_ShouldEndsNegation ==
    (HasResult /\ OneChain /\ ShouldAfterShouldNot) =>
        result[1].IsSuccessful = (heap[cur].types # <<>>)

(***************************************************************************)
(* C21 (stated as claimed; violated): s.Not().P, for P one of BeStruct and *)
(* HaveNameEndingWith(suffix), keeps exactly the records of s that do not  *)
(* satisfy P.                                                              *)
(***************************************************************************)
\* record t satisfies the filter predicate of the call
Satisfies(t, call) ==
    IF call.op = "BeStruct" THEN t.IsStruct ELSE HasSuffix(t.Name, call.arg)

C21_NotNegatesNext ==
    (/\ Len(trace) = 2
     /\ trace[1] = CallOf("Not", "", 1)
     /\ trace[2].op \in {"BeStruct", "HaveNameEndingWith"}
     /\ trace[2].recv = 1) =>
        heap[1].types = SelectSeq(universe, LAMBDA t : ~Satisfies(t, trace[2]))

(***************************************************************************)
(* C22 (stated as claimed; violated): the TypeSet returned by Should() or  *)
(* ShouldNot() has as baseline the records its receiver held at the call,  *)
(* and the TypeSet returned by any other predicate has the baseline of its *)
(* receiver.                                                               *)
(***************************************************************************)
C22_BaselineAtCheckpoint ==
    [][ trace' # trace =>
            IF trace'[Len(trace')].op \in {"Should", "ShouldNot"}
            THEN heap'[cur'].originalTypes = heap[cur].types
            ELSE heap'[cur'].originalTypes = heap[cur].originalTypes ]_vars

(***************************************************************************)
(* C23 (stated as claimed; violated): a call of a filter predicate returns *)
(* a TypeSet whose log is its receiver's log with the predicate's name     *)
(* appended, also when NameMatch is given a pattern that is not a regular  *)
(* expression, in which case the returned TypeSet holds no records.        *)
(***************************************************************************)
FilterNames ==
    {"ResideInNamespace", "HaveDependencyOn", "DoNotHaveDependencyOn",
     "DoNotResideInNamespace", "BeStruct", "HaveNameEndingWith", "NameMatch"}

C23_FilterLogsItsName ==
    [][ (trace' # trace /\ trace'[Len(trace')].op \in FilterNames) =>
            /\ heap'[cur'].matchedPredicates =
                   Append(heap[cur].matchedPredicates, trace'[Len(trace')].op)
            /\ (trace'[Len(trace')].op = "NameMatch" /\ ~Compiles(trace'[Len(trace')].arg))
                   => heap'[cur'].types = <<>> ]_vars

(***************************************************************************)
(* C24 (stated as claimed; violated): over an empty universe the Result of *)
(* a chain that contains ShouldNot is successful, the Result of a chain    *)
(* without ShouldNot that applies at least one filter predicate is not,    *)
(* and FailingTypes is empty in both cases.                                *)
(***************************************************************************)
Called(ops) == \E k \in 1..Len(trace) : trace[k].op \in ops

C24_EmptyUniverse ==
    (universe = <<>> /\ HasResult /\ OneChain) =>
        /\ Called({"ShouldNot"}) => result[1] = Result(TRUE, <<>>)
        /\ (~Called({"ShouldNot"}) /\ Called(FilterNames)) => result[1] = Result(FALSE, <<>>)

(***************************************************************************)
(* C25 (stated as claimed; violated): the Result of                        *)
(* That().ResideInNamespace(ns).And().DoNotHaveDependencyOn(dep) on a      *)
(* freshly loaded Types is successful when some record resides in ns and   *)
(* none of those depends on dep, and is not successful when at least one   *)
(* record residing in ns depends on dep.                                   *)
(***************************************************************************)
C25_Chain(ns, dep) ==
    /\ HasResult
    /\ cur = 2
    /\ trace = << CallOf("ResideInNamespace", ns, 1), CallOf("And", "", 2),
                  CallOf("DoNotHaveDependencyOn", dep, 2) >>

C25_InNamespace(ns) == SelectSeq(universe, LAMBDA t : Aligned(t.FullPath, ns))

C25_AndDoNotDependRule ==
    \A ns \in RuleNamespaceArgs, dep \in RuleDependencyArgs :
        C25_Chain(ns, dep) =>
            /\ (C25_InNamespace(ns) # <<>> /\ C2_Offenders(ns, dep) = <<>>)
                   => result[1].IsSuccessful
            /\ C2_Offenders(ns, dep) # <<>> => ~result[1].IsSuccessful

(***************************************************************************)
(* C26 (stated as claimed; violated): in the results of                    *)
(* DDDWithCleanArchitecture(domains, shared, pkg).Validate no rule fails   *)
(* because of a dependency on the shared kernel: a rule that reports       *)
(* failing types is not one that forbids the shared namespace.             *)
(***************************************************************************)
C26_SharedKernelAllowed ==
    \A domains \in DomainLists, shared \in SharedArgs, pkg \in PkgArgs :
        Built("DDDWithCleanArchitecture", << domains, shared, pkg >>) =>
            \A i \in 1..Len(results) :
                ~results[i].IsSuccessful => ForbiddenOf(pattern[1].Rules[i]) # shared

(***************************************************************************)
(* C27.  ResideInNamespace, HaveDependencyOn and ShouldNot return a        *)
(* TypeSet other than the receiver whose log is the receiver's log plus    *)
(* one entry, and leave the records, the baseline and the log of the       *)
(* receiver and of every other TypeSet as they were; any other call        *)
(* changes the records, baseline and log of its receiver only, so an       *)
(* append to a returned TypeSet is seen neither by the TypeSet it was      *)
(* derived from nor by a sibling.                                          *)
(***************************************************************************)
Content(ts) == << ts.types, ts.originalTypes, ts.matchedPredicates >>

Allocating == { "ResideInNamespace", "HaveDependencyOn", "ShouldNot" }

C27_Step ==
    trace' # trace =>
        LET call == trace'[Len(trace')]
        IN IF call.op \in Allocating
           THEN /\ Len(heap') = Len(heap) + 1
                /\ cur' = Len(heap')
                /\ cur' # call.recv
                /\ \A i \in 1..Len(heap) : Content(heap'[i]) = Content(heap[i])
                /\ Len(heap'[cur'].matchedPredicates) = Len(heap[call.recv].matchedPredicates) + 1
                /\ SubSeq(heap'[cur'].matchedPredicates, 1, Len(heap[call.recv].matchedPredicates))
                       = heap[call.recv].matchedPredicates
           ELSE /\ Len(heap') = Len(heap)
                /\ \A i \in 1..Len(heap) :
                       i # call.recv => Content(heap'[i]) = Content(heap[i])

C27_Isolated == [][C27_Step]_vars

\* two TypeSets derived from one receiver whose log array has room left,
\* each with its own last log entry
C27_Witness ==
    \E a \in 1..Len(trace), b \in 1..Len(trace) :
        /\ a < b
        /\ trace[a].op \in Allocating
        /\ trace[b].op \in Allocating
        /\ trace[a].op # trace[b].op
        /\ trace[a].recv = trace[b].recv
        /\ LET sl == memory.sets[trace[a].recv].matchedPredicates
           IN /\ sl.len > 0
              /\ sl.len < CapOf(memory.arrays, sl)
        /\ \E i \in 1..Len(heap), j \in 1..Len(heap) :
               /\ i # j
               /\ heap[i].currentPredicate = trace[a].op
               /\ heap[j].currentPredicate = trace[b].op
               /\ heap[i].matchedPredicates[Len(heap[i].matchedPredicates)] = trace[a].op
               /\ heap[j].matchedPredicates[Len(heap[j].matchedPredicates)] = trace[b].op

\* Or has appended a record to the copy ShouldNot made of a filtered set,
\* and the filtered set still has its one record
C27_WitnessRecords ==
    \E i \in 3..Len(heap) :
        /\ heap[i].matchedPredicates = << "ResideInNamespace", "Negate", "Or" >>
        /\ Len(heap[i].types) = 2
        /\ Len(heap[i - 1].types) = 1

(***************************************************************************)
(* C28.  A call of Validate of a built-in pattern leaves the records, the  *)
(* baseline and the log of the universe TypeSet as they were, and a call   *)
(* that follows an earlier call of Validate of the same pattern returns    *)
(* the results the earlier call returned.                                  *)
(***************************************************************************)
ValidateStep == trace' # trace /\ trace'[Len(trace')].op = "Validate"

Validated(n) == Cardinality({ k \in 1..Len(trace) : trace[k].op = "Validate" }) >= n

C28_Step ==
    ValidateStep =>
        /\ Content(heap'[1]) = Content(heap[1])
        /\ Content(heap'[1]) = << universe, universe, <<>> >>
        /\ Validated(1) => results' = results

C28_ValidateRepeatable == [][C28_Step]_vars

\* Validate was called twice and returned a rule that failed on some record
C28_Witness ==
    /\ Validated(2)
    /\ \E k \in 1..Len(results) :
           /\ ~results[k].IsSuccessful
           /\ results[k].FailingTypes # <<>>
    /\ \E k \in 1..Len(results) : results[k].IsSuccessful

(***************************************************************************)
(* C29.  Every record in FailingTypes of a ValidationResult that Validate  *)
(* of a built-in pattern returned has the FullPath and Name of a record    *)
(* of the universe.                                                        *)
(***************************************************************************)
C29_FailingTypesInUniverse ==
    \A k \in 1..Len(results) :
        \A j \in 1..Len(results[k].FailingTypes) :
            \E u \in 1..Len(universe) :
                /\ universe[u].FullPath = results[k].FailingTypes[j].FullPath
                /\ universe[u].Name = results[k].FailingTypes[j].Name

(***************************************************************************)
(* C30.  In a chain of filter predicates on That(), the current records    *)
(* are those, in the same order, of the chain with its last two calls      *)
(* exchanged run on a freshly loaded Types of the same universe, and when  *)
(* the last two calls are the same call, those of the chain without the    *)
(* last call.                                                              *)
(***************************************************************************)
\* the calls of the trace as a chain
ChainOfTrace == [ k \in 1..Len(trace) |-> Step(trace[k].op, trace[k].arg) ]

\* the records a chain leaves when it runs on a freshly loaded Types
FreshRecords(chain) ==
    LET st == RunChain([heap |-> << extractTypesFromPackages(universe) >>, cur |-> 1],
                       chain, 1)
    IN st.heap[st.cur].types

\* the chain with its last two calls exchanged
Exchanged(chain) ==
    SubSeq(chain, 1, Len(chain) - 2) \o << chain[Len(chain)], chain[Len(chain) - 1] >>

C30_FiltersCommute ==
    (OneChain /\ Len(trace) >= 2) =>
        /\ heap[cur].types = FreshRecords(ChainOfTrace)
        /\ heap[cur].types = FreshRecords(Exchanged(ChainOfTrace))
        /\ ChainOfTrace[Len(trace)] = ChainOfTrace[Len(trace) - 1]
               => heap[cur].types = FreshRecords(SubSeq(ChainOfTrace, 1, Len(trace) - 1))

\* two different filters were applied, each dropped a record the other kept,
\* and a record is left
C30_Witness ==
    /\ OneChain
    /\ Len(trace) = 2
    /\ trace[1].op # trace[2].op
    /\ Len(universe) > Len(FreshRecords(<< ChainOfTrace[1] >>))
    /\ Len(universe) > Len(FreshRecords(<< ChainOfTrace[2] >>))
    /\ FreshRecords(<< ChainOfTrace[1] >>) # FreshRecords(<< ChainOfTrace[2] >>)

\* the same filter was applied twice and a record is left
C30_WitnessTwice ==
    /\ OneChain
    /\ Len(trace) = 2
    /\ trace[1].op = trace[2].op
    /\ trace[1].arg = trace[2].arg
    /\ heap[cur].types # <<>>
    /\ Len(heap[cur].types) < Len(universe)

====
